---- MODULE Spec2Model ----
(***************************************************************************)
(* Livecount (src/livecount/counter.py): a memcache-based counter with     *)
(* write-behind persistence to the datastore and read-through loads.       *)
(*                                                                         *)
(* Shared state: memcache (the counter entries and the "_dirty" markers,   *)
(* which share its key space), the datastore records, the task queue and   *)
(* the running writeback workers.  Every memcache / datastore / taskqueue  *)
(* call of a handler is one atomic step; the handlers hold no other shared *)
(* state.                                                                  *)
(***************************************************************************)
EXTENDS Integers, Sequences, FiniteSets, Bags, TLC

VARIABLES
    cache,      \* memcache: <<namespace, key>> -> integer, the counter of an
                \* identity under its key_id, its marker under key_id + '_dirty'
    durable,    \* datastore: <<parent_key, key_id>> -> LivecountCounter entity
    queue,      \* taskqueue 'livecount-writebacks': bag of tasks (params, origin)
    workers,    \* running LivecountCounterWorker.post requests: bag of frames
    frames,     \* per caller: the locals of its current / last call
    errors,     \* key_ids reported by logging.error in the worker
    now,        \* index into Clock: what datetime.now() returns
    ncalls,     \* number of calls started (bounds the exploration)
    unread      \* cache keys updated by an increment and not yet read by a worker

vars == <<cache, durable, queue, workers, frames, errors, now, ncalls, unread>>

----------------------------------------------------------------------------
(* Python values.  An optional value is a sequence of length 0 (None) or 1. *)

None == <<>>

Some(v) == <<v>>

Val(o) == o[1]

Max(a, b) == IF a >= b THEN a ELSE b

Min(a, b) == IF a <= b THEN a ELSE b

\* s[a:b] of a Python string held as a sequence of characters
Slice(s, a, b) == SubSeq(s, a + 1, Min(b, Len(s)))

Digit == <<"0", "1", "2", "3", "4", "5", "6", "7", "8", "9">>

RECURSIVE Pad(_, _)
\* the decimal digits of n, zero-padded to width w ("%0wd")
Pad(n, w) == IF w = 0 THEN <<>> ELSE Append(Pad(n \div 10, w - 1), Digit[(n % 10) + 1])

DigitVal(ch) == (CHOOSE i \in 1..10 : Digit[i] = ch) - 1

RECURSIVE Num(_)
\* int() of a sequence of digit characters
Num(s) == IF s = <<>> THEN 0 ELSE 10 * Num(SubSeq(s, 1, Len(s) - 1)) + DigitVal(s[Len(s)])

----------------------------------------------------------------------------
(* datetime: a period is either a datetime object or its string.           *)

Datetime(y, mo, d, h, mi, s, us) ==
    [tag |-> "datetime", y |-> y, mo |-> mo, d |-> d, h |-> h, mi |-> mi, s |-> s, us |-> us]

Str(chars) == [tag |-> "str", chars |-> chars]

IsDatetime(p) == p.tag = "datetime"

\* datetime.__str__: isoformat(sep=' '), microseconds only when non-zero
DatetimeStr(dt) ==
    Pad(dt.y, 4) \o <<"-">> \o Pad(dt.mo, 2) \o <<"-">> \o Pad(dt.d, 2) \o <<" ">>
    \o Pad(dt.h, 2) \o <<":">> \o Pad(dt.mi, 2) \o <<":">> \o Pad(dt.s, 2)
    \o (IF dt.us = 0 THEN <<>> ELSE <<".">> \o Pad(dt.us, 6))

\* str(period): the identity on a string
PyStr(p) == IF IsDatetime(p) THEN DatetimeStr(p) ELSE p.chars

IsLeap(y) == y % 4 = 0 /\ (y % 100 # 0 \/ y % 400 = 0)

DaysInMonth(y, m) ==
    IF m = 2 THEN (IF IsLeap(y) THEN 29 ELSE 28)
    ELSE IF m \in {4, 6, 9, 11} THEN 30 ELSE 31

RECURSIVE DaysBeforeMonth(_, _)
DaysBeforeMonth(y, m) == IF m = 1 THEN 0 ELSE DaysBeforeMonth(y, m - 1) + DaysInMonth(y, m - 1)

DaysBeforeYear(y) == (y - 1) * 365 + (y - 1) \div 4 - (y - 1) \div 100 + (y - 1) \div 400

\* date.toordinal()
Ymd2Ord(y, m, d) == DaysBeforeYear(y) + DaysBeforeMonth(y, m) + d

\* datetime.weekday(): Monday is 0
Weekday(dt) == (Ymd2Ord(dt.y, dt.mo, dt.d) + 6) % 7

RECURSIVE MinusDays(_, _)
\* dt - timedelta(k): k days earlier, the time of day kept
MinusDays(dt, k) ==
    IF k = 0 THEN dt
    ELSE IF dt.d > 1 THEN MinusDays([dt EXCEPT !.d = dt.d - 1], k - 1)
    ELSE IF dt.mo > 1
         THEN MinusDays([dt EXCEPT !.mo = dt.mo - 1, !.d = DaysInMonth(dt.y, dt.mo - 1)], k - 1)
         ELSE MinusDays([dt EXCEPT !.y = dt.y - 1, !.mo = 12, !.d = 31], k - 1)

RECURSIVE UpToDot(_)
\* datetime_str.split('.')[0]
UpToDot(s) == IF s = <<>> \/ Head(s) = "." THEN <<>> ELSE <<Head(s)>> \o UpToDot(Tail(s))

\* what str_to_datetime gives in place of a datetime when it raises ValueError
ValueError == [tag |-> "ValueError"]

Digits == {Digit[i] : i \in 1..10}

\* the vertical tab, the character 0x0B
VerticalTab == ""

\* the characters the pattern \s matches in Python 2.7: [ \t\n\r\f\v]
Whitespace == {" ", "\t", "\n", "\r", "\f", VerticalTab}

RECURSIVE RunOf(_, _, _)
\* the length of the longest run of characters of `set` in s from position p
RunOf(s, p, set) == IF p > Len(s) \/ s[p] \notin set THEN 0 ELSE 1 + RunOf(s, p + 1, set)

Lit(s, p, ch) == p <= Len(s) /\ s[p] = ch

NoField == [ok |-> FALSE, v |-> 0, next |-> 0]

\* a numeric directive of strptime (%m, %d, %H, %M, %S) at position p: one or
\* two digits, the whole run of digits, with a value in lo..hi
Field(s, p, lo, hi) ==
    LET n == RunOf(s, p, Digits)
    IN  IF n \notin {1, 2} THEN NoField
        ELSE LET v == Num(SubSeq(s, p, p + n - 1))
             IN  IF lo <= v /\ v <= hi THEN [ok |-> TRUE, v |-> v, next |-> p + n]
                 ELSE NoField

\* %d also matches a blank followed by one digit 1-9
DayField(s, p) ==
    IF Lit(s, p, " ")
    THEN IF p + 1 <= Len(s) /\ s[p + 1] \in Digits \ {"0"} /\ RunOf(s, p + 1, Digits) = 1
         THEN [ok |-> TRUE, v |-> DigitVal(s[p + 1]), next |-> p + 2]
         ELSE NoField
    ELSE Field(s, p, 1, 31)

\* time.strptime after %S: no text may be left over, the year is at least 1
\* and the month has the day
EndOfString(t, y, mo, d, h, mi, sec) ==
    IF ~sec.ok \/ sec.next # Len(t) + 1 \/ y = 0 \/ d > DaysInMonth(y, mo) THEN ValueError
    ELSE Datetime(y, mo, d, h, mi, sec.v, 0)

\* time.strptime after %M: ":%S"
AfterMinute(t, y, mo, d, h, mi) ==
    IF ~mi.ok \/ ~Lit(t, mi.next, ":") THEN ValueError
    ELSE EndOfString(t, y, mo, d, h, mi.v, Field(t, mi.next + 1, 0, 61))

\* time.strptime after %H: ":%M"
AfterHour(t, y, mo, d, h) ==
    IF ~h.ok \/ ~Lit(t, h.next, ":") THEN ValueError
    ELSE AfterMinute(t, y, mo, d, h.v, Field(t, h.next + 1, 0, 59))

\* time.strptime after the blanks that follow %d (there are n of them): "%H"
AfterBlanks(t, y, mo, d, n) ==
    IF ~d.ok \/ n = 0 THEN ValueError
    ELSE AfterHour(t, y, mo, d.v, Field(t, d.next + n, 0, 23))

\* time.strptime after %d: the blank of the format, one or more of Whitespace
AfterDay(t, y, mo, d) == AfterBlanks(t, y, mo, d, RunOf(t, d.next, Whitespace))

\* time.strptime after %m: "-%d"
AfterMonth(t, y, mo) ==
    IF ~mo.ok \/ ~Lit(t, mo.next, "-") THEN ValueError
    ELSE AfterDay(t, y, mo.v, DayField(t, mo.next + 1))

\* time.strptime(t, "%Y-%m-%d %H:%M:%S"): the fields as a datetime (seconds up
\* to 61), or ValueError when t does not match, has text left over, or names
\* a day the month does not have
strptime(t) ==
    IF RunOf(t, 1, Digits) # 4 \/ ~Lit(t, 5, "-") THEN ValueError
    ELSE AfterMonth(t, Num(SubSeq(t, 1, 4)), Field(t, 6, 1, 12))

\* the day after dt's, the time of day kept
PlusDay(dt) ==
    IF dt.d < DaysInMonth(dt.y, dt.mo) THEN [dt EXCEPT !.d = dt.d + 1]
    ELSE IF dt.mo < 12 THEN [dt EXCEPT !.mo = dt.mo + 1, !.d = 1]
    ELSE [dt EXCEPT !.y = dt.y + 1, !.mo = 1, !.d = 1]

\* time.mktime: seconds 60 and 61 carry into the next minute
Carry(st) ==
    IF st.s < 60 THEN st
    ELSE IF st.mi < 59 THEN [st EXCEPT !.s = st.s - 60, !.mi = st.mi + 1]
    ELSE IF st.h < 23 THEN [st EXCEPT !.s = st.s - 60, !.mi = 0, !.h = st.h + 1]
    ELSE PlusDay([st EXCEPT !.s = st.s - 60, !.mi = 0, !.h = 0])

\* time.mktime in Python 2.7 (time.accept2dyear is set): a year below 1900
\* is taken for a two-digit year, 0..68 for 2000..2068 and 69..99 for
\* 1969..1999, and any other is a ValueError (year out of range)
Accept2dYear(st) ==
    IF st.y >= 1900 THEN st
    ELSE IF 69 <= st.y /\ st.y <= 99 THEN [st EXCEPT !.y = st.y + 1900]
    ELSE IF 0 <= st.y /\ st.y <= 68 THEN [st EXCEPT !.y = st.y + 2000]
    ELSE ValueError

\* datetime.fromtimestamp: ValueError when the time is past the last year
\* datetime can hold
InRange(dt) == IF dt.y > 9999 THEN ValueError ELSE dt

\* mktime and fromtimestamp on a struct_time whose year mktime accepts
ToDatetime(st) == IF st = ValueError THEN ValueError ELSE InRange(Carry(st))

\* datetime.fromtimestamp(time.mktime(st)) where the server's zone is UTC (as
\* on App Engine)
FromTimestamp(st) == ToDatetime(Accept2dYear(st))

\* what strptime's result becomes: its ValueError, or the datetime
Parsed(st) == IF st = ValueError THEN ValueError ELSE FromTimestamp(st)

\* PeriodType.str_to_datetime: strptime on the part before the first '.',
\* through mktime/fromtimestamp (microseconds lost)
str_to_datetime(chars) == Parsed(strptime(UpToDot(chars)))

\* what find_scope gives in place of a scope when str_to_datetime raises: no
\* scope, which is a sequence of single characters, equals it
RaisedScope == <<"ValueError">>

\* what get_key_id gives in place of a key when find_scope raises: no key,
\* which holds two '|', equals it
RaisedKey == "ValueError"

RECURSIVE Join(_)
\* the Python string of a sequence of characters
Join(chars) == IF chars = <<>> THEN "" ELSE Head(chars) \o Join(Tail(chars))

\* lines 61-63: the Monday of the period's week; the ValueError of line 60
\* passes through
WeekScope(p) ==
    IF p = ValueError THEN RaisedScope
    ELSE Slice(DatetimeStr(MinusDays(p, Weekday(p))), 0, 10) \o <<"w", "e", "e", "k">>

\* PeriodType.find_scope
find_scope(period_type, period) ==
    IF period_type = "second" THEN Slice(PyStr(period), 0, 19)
    ELSE IF period_type = "minute" THEN Slice(PyStr(period), 0, 16)
    ELSE IF period_type = "hour" THEN Slice(PyStr(period), 0, 13)
    ELSE IF period_type = "day" THEN Slice(PyStr(period), 0, 10)
    ELSE IF period_type = "week"
         THEN WeekScope(IF IsDatetime(period) THEN period
                        ELSE str_to_datetime(period.chars))
    ELSE IF period_type = "month" THEN Slice(PyStr(period), 0, 7)
    ELSE IF period_type = "year" THEN Slice(PyStr(period), 0, 4)
    ELSE <<"a", "l", "l">>

\* LivecountCounter.get_key_id: name + '|' + period_type + '|' + scoped_period
get_key_id(name, period_type, period) ==
    LET scoped_period == find_scope(period_type, period)
    IN  IF scoped_period = RaisedScope THEN RaisedKey
        ELSE name \o "|" \o period_type \o "|" \o Join(scoped_period)

\* ndb.Key.urlsafe() and ndb.Key(urlsafe=...): an injective encoding and its inverse
Urlsafe(key) == "urlsafe:" \o key

FromUrlsafe(s) == CHOOSE key \in {"P1", "P2"} : Urlsafe(key) = s

\* LivecountCounter.parent_to_ns
parent_to_ns(parent_key) ==
    IF parent_key # None /\ Val(parent_key) # "" THEN Some(Urlsafe(Val(parent_key))) ELSE None

\* LivecountCounter.ns_to_parent
ns_to_parent(namespace) ==
    IF namespace # None /\ Val(namespace) # "" THEN Some(FromUrlsafe(Val(namespace))) ELSE None

\* LivecountCounter.get_key: the datastore key (parent, kind, id)
get_key(parent_key, name, period_type, period) ==
    <<parent_key, get_key_id(name, period_type, period)>>

----------------------------------------------------------------------------
(* The collaborators: google.appengine.api.memcache, ndb, taskqueue.       *)

MapPut(m, k, v) == [x \in DOMAIN m \cup {k} |-> IF x = k THEN v ELSE m[x]]

MapDel(m, k) == [x \in DOMAIN m \ {k} |-> m[x]]

\* memcache.get: the value, or None on a miss
memcache_get(m, k) == IF k \in DOMAIN m THEN Some(m[k]) ELSE None

\* memcache.add: stores only when the key is absent
memcache_add(m, k, v) == IF k \in DOMAIN m THEN m ELSE MapPut(m, k, v)

\* memcache.incr: None when the key is absent or its value is no unsigned
\* integer, else the new value (counts stay far below the 64-bit wrap)
memcache_incr(m, k, delta) ==
    IF k \notin DOMAIN m \/ m[k] < 0 THEN None ELSE Some(m[k] + delta)

\* memcache.decr: as incr, capped at zero from below
memcache_decr(m, k, delta) ==
    IF k \notin DOMAIN m \/ m[k] < 0 THEN None ELSE Some(Max(0, m[k] - delta))

\* the shared state as one value, so that a handler step is a function
Store == [cache |-> cache, durable |-> durable, queue |-> queue,
          errors |-> errors, unread |-> unread]

\* lines 201, 236: key_id + '_dirty' in the namespace of the counter k
MarkerKey(k) == <<k[1], k[2] \o "_dirty">>

\* whether the memcache key m ends in '_dirty'
IsMarker(m) == Len(m[2]) >= 6 /\ SubSeq(m[2], Len(m[2]) - 5, Len(m[2])) = "_dirty"

\* the counter key whose marker key is m
Unmarked(m) == <<m[1], SubSeq(m[2], 1, Len(m[2]) - 6)>>

\* the counter keys whose marker the memcache m holds
Markers(m) == {Unmarked(x) : x \in {y \in DOMAIN m : IsMarker(y)}}

\* the counter keys whose marker is present
dirty == Markers(cache)

\* the characters of the Python string s
Chars(s) == [i \in 1..Len(s) |-> SubSeq(s, i, i)]

\* whether the ten characters c are the date of a Monday as str(datetime)
\* writes it: YYYY-MM-DD
IsMondayDate(c) ==
    /\ \A i \in {1, 2, 3, 4, 6, 7, 9, 10} : c[i] \in Digits
    /\ c[5] = "-" /\ c[8] = "-"
    /\ Num(SubSeq(c, 1, 4)) >= 1
    /\ Num(SubSeq(c, 6, 7)) \in 1..12
    /\ Num(SubSeq(c, 9, 10)) \in 1..DaysInMonth(Num(SubSeq(c, 1, 4)), Num(SubSeq(c, 6, 7)))
    /\ (Ymd2Ord(Num(SubSeq(c, 1, 4)), Num(SubSeq(c, 6, 7)), Num(SubSeq(c, 9, 10))) + 6) % 7 = 0

\* lines 45-71: whether find_scope(period_type, period) gives the string
\* scope for some period: a prefix of str(period) of at most the slice's
\* length, a Monday's date and 'week', or 'all'
IsScope(period_type, scope) ==
    IF period_type = "second" THEN Len(scope) <= 19
    ELSE IF period_type = "minute" THEN Len(scope) <= 16
    ELSE IF period_type = "hour" THEN Len(scope) <= 13
    ELSE IF period_type = "day" THEN Len(scope) <= 10
    ELSE IF period_type = "week"
         THEN Len(scope) = 14 /\ SubSeq(scope, 11, 14) = "week"
              /\ IsMondayDate(Chars(SubSeq(scope, 1, 10)))
    ELSE IF period_type = "month" THEN Len(scope) <= 7
    ELSE IF period_type = "year" THEN Len(scope) <= 4
    ELSE scope = "all"

\* the positions of '|' in the string s
Bars(s) == {i \in 1..Len(s) : SubSeq(s, i, i) = "|"}

\* lines 93-98: whether the string is get_key_id(name, period_type, period)
\* for some name, period type and period: name + '|' + period_type + '|' +
\* scope
IsKeyId(s) ==
    \E i, j \in Bars(s) :
        i < j /\ IsScope(SubSeq(s, i + 1, j - 1), SubSeq(s, j + 1, Len(s)))

\* the entries of the memcache m under the key_id of an identity: the
\* counts get_count and increment can address.  The marker of an identity
\* is among them when its key is the key_id of another identity.
Counters(m) == [x \in {y \in DOMAIN m : IsKeyId(y[2])} |-> m[x]]

\* the counter entries
counters == Counters(cache)

\* the datastore key of the counter k: parent key for namespace (line 229)
RecordKey(k) == <<ns_to_parent(k[1]), k[2]>>

\* Python truthiness of an optional integer (None and 0 are false)
Truthy(o) == o # None /\ Val(o) # 0

----------------------------------------------------------------------------
(* Frames: the locals of one call.                                         *)

IdleFrame ==
    [op |-> "idle", pc |-> "done", name |-> "", period |-> Str(<<>>),
     period_types |-> <<>>, i |-> 0, parent_key |-> None, namespace |-> None,
     delta |-> 0, batch_size |-> None, period_type |-> "", key_id |-> "",
     result |-> None, record |-> None, current_count |-> None, count |-> None,
     raised |-> "", origin |-> None]

CacheKey(l) == <<l.namespace, l.key_id>>

FullKey(l) == <<l.parent_key, l.key_id>>

\* a call returns: its transient locals are gone, `count` is what it returned
Return(l, value) ==
    [l EXCEPT !.pc = "done", !.result = None, !.record = None,
              !.current_count = None, !.count = value]

\* the call ends in the exception e, which its caller sees
Raise(l, e) ==
    [l EXCEPT !.pc = "done", !.raised = e, !.result = None, !.record = None,
              !.current_count = None, !.count = None]

\* load_and_increment_counter, lines 163-166: the head of the loop body
EnterIteration(l) ==
    IF l.i > Len(l.period_types) THEN Return(l, None)
    ELSE LET key_id == get_key_id(l.name, l.period_types[l.i], l.period)
         IN  IF key_id = RaisedKey THEN Raise(l, "ValueError")
             ELSE [l EXCEPT !.pc = "incr", !.period_type = l.period_types[l.i],
                            !.key_id = key_id,
                            !.result = None, !.record = None, !.current_count = None]

NextIteration(l) == EnterIteration([l EXCEPT !.i = l.i + 1])

\* load_and_increment_counter, lines 157-163: the locals on entry
IncrementFrame(name, period, period_types, parent_key, delta, batch_size, clock) ==
    EnterIteration(
        [IdleFrame EXCEPT !.op = "increment", !.name = name,
            !.namespace = parent_to_ns(parent_key), !.parent_key = parent_key,
            !.period_types = IF period_types = None THEN <<"all">> ELSE Val(period_types),
            !.period = IF period = None THEN clock ELSE Val(period),
            !.delta = delta, !.batch_size = batch_size, !.i = 1])

\* line 200: whether this iteration tries to create a worker
WantsFlush(l) ==
    ~Truthy(l.batch_size)
    \/ (Truthy(l.batch_size) /\ Val(l.current_count) % Val(l.batch_size) = 0)

AfterCount(l) == IF WantsFlush(l) THEN [l EXCEPT !.pc = "claim"] ELSE NextIteration(l)

\* an increment that stores the delta over the value (set in place of incr)
IncrAtomicStep_Overwrites(S, l) ==
    LET k == CacheKey(l)
    IN  IF k \notin DOMAIN S.cache
        THEN [S |-> S, l |-> [l EXCEPT !.pc = "load", !.result = None]]
        ELSE [S |-> [S EXCEPT !.cache = MapPut(S.cache, k, l.delta),
                              !.unread = S.unread \cup {k}],
              l |-> AfterCount([l EXCEPT !.result = Some(l.delta),
                                         !.current_count = Some(l.delta)])]

\* lines 167-174, 194-195: the atomic memcache.incr / memcache.decr
IncrAtomicStep(S, l) ==
    LET k == CacheKey(l)
        result == IF l.delta >= 0 THEN memcache_incr(S.cache, k, l.delta)
                  ELSE memcache_decr(S.cache, k, -l.delta)
    IN  IF result = None
        THEN [S |-> S, l |-> [l EXCEPT !.pc = "load", !.result = None]]
        ELSE [S |-> [S EXCEPT !.cache = MapPut(S.cache, k, Val(result)),
                              !.unread = S.unread \cup {k}],
              l |-> AfterCount([l EXCEPT !.result = result, !.current_count = result])]

\* lines 175-178: full_key.get()
IncrLoadStep(S, l) ==
    [S |-> S,
     l |-> [l EXCEPT !.pc = "seed",
                    !.record = memcache_get(S.durable,
                                   get_key(l.parent_key, l.name, l.period_type, l.period))]]

\* a seed from the record without the floor at zero
SeedFromRecord_Unfloored(count, delta) == count + delta

\* a seed that forgets the delta of the call that loads the record
SeedFromRecord_WithoutDelta(count, delta) == Max(0, count)

\* lines 179-188, with a datastore record: the value the cache is seeded with
SeedFromRecord(count, delta) == Max(0, count + delta)

\* lines 187-188, 192-193: current_count on the cold paths
ColdCurrentCount(l) ==
    IF ~Truthy(l.batch_size) THEN None
    ELSE IF l.record # None THEN Some(Val(l.record).count) ELSE Some(l.delta)

\* lines 189-191, no datastore record: the value the cache is seeded with
SeedNew(delta) == delta

\* a cold path that also writes the seeded count to the datastore
IncrSeedStep_PutsRecord(S, l) ==
    LET k == CacheKey(l)
        v == IF l.record # None THEN SeedFromRecord(Val(l.record).count, l.delta)
             ELSE SeedNew(l.delta)
    IN  [S |-> [S EXCEPT !.cache = memcache_add(S.cache, k, v),
                         !.durable = MapPut(S.durable, FullKey(l),
                                        [period_type |-> l.period_type,
                                         period |-> find_scope(l.period_type, l.period),
                                         name |-> l.name, count |-> v]),
                         !.unread = S.unread \cup {k}],
         l |-> AfterCount([l EXCEPT !.current_count = ColdCurrentCount(l)])]

\* lines 179-193: memcache.add of the seeded value
IncrSeedStep(S, l) ==
    LET k == CacheKey(l)
        v == IF l.record # None THEN SeedFromRecord(Val(l.record).count, l.delta)
             ELSE SeedNew(l.delta)
    IN  [S |-> [S EXCEPT !.cache = memcache_add(S.cache, k, v),
                         !.unread = S.unread \cup {k}],
         l |-> AfterCount([l EXCEPT !.current_count = ColdCurrentCount(l)])]

\* a claim that never sees the marker (memcache.set in place of memcache.add)
IncrClaimStep_IgnoresMarker(S, l) ==
    [S |-> [S EXCEPT !.cache = MapPut(S.cache, MarkerKey(CacheKey(l)), l.delta)],
     l |-> [l EXCEPT !.pc = "enqueue"]]

\* line 201: memcache.add(key_id + '_dirty', delta, namespace), which is
\* false when memcache holds the key.  Lines 202-204 log the counter value
\* (a read).
IncrClaimStep(S, l) ==
    IF MarkerKey(CacheKey(l)) \in DOMAIN S.cache
    THEN [S |-> S, l |-> NextIteration(l)]
    ELSE [S |-> [S EXCEPT !.cache = memcache_add(S.cache, MarkerKey(CacheKey(l)), l.delta)],
          l |-> [l EXCEPT !.pc = "enqueue"]]

\* lines 205-208: the task's params as the queue carries them (strings)
TaskParams(l) ==
    LET base == [name |-> l.name, period |-> PyStr(l.period), period_type |-> l.period_type]
    IN  IF l.namespace # None
        THEN [name |-> base.name, period |-> base.period, period_type |-> base.period_type,
              namespace |-> Val(l.namespace)]
        ELSE base

\* a queued task: its params and, carried along for counting the tasks of an
\* identity and read by no handler, `origin`: the cache key of the identity
\* whose pass of the loop enqueued it
Task(l) ==
    [f \in DOMAIN TaskParams(l) \cup {"origin"} |->
        IF f = "origin" THEN CacheKey(l) ELSE TaskParams(l)[f]]

\* lines 209-211: taskqueue.add
IncrEnqueueStep(S, l) ==
    [S |-> [S EXCEPT !.queue = S.queue (+) SetToBag({Task(l)})],
     l |-> NextIteration(l)]

\* load_and_get_count, lines 122-126: the locals on entry; default_period
\* is the value the default argument of `period` holds
GetCountFrame(name, period_type, period, parent_key, default_period) ==
    LET p == IF period = None THEN default_period ELSE Val(period)
        key_id == get_key_id(name, period_type, p)
        l == [IdleFrame EXCEPT !.op = "get_count", !.pc = "get", !.name = name,
                !.period_type = period_type, !.period = p, !.parent_key = parent_key]
    IN  IF key_id = RaisedKey THEN Raise(l, "ValueError")
        ELSE [l EXCEPT !.namespace = parent_to_ns(parent_key), !.key_id = key_id]

\* lines 127-130, 141
GetCacheStep(S, l) ==
    LET count == memcache_get(S.cache, CacheKey(l))
    IN  [S |-> S, l |-> IF count = None THEN [l EXCEPT !.pc = "gload"] ELSE Return(l, count)]

\* a read path that answers zero for a counter that has no record
GetLoadStep_ZeroWhenMissing(S, l) ==
    LET record == memcache_get(S.durable, FullKey(l))
    IN  [S |-> S,
         l |-> IF record # None THEN [l EXCEPT !.pc = "gseed", !.record = record]
               ELSE Return(l, Some(0))]

\* lines 132-137
GetLoadStep(S, l) ==
    LET record == memcache_get(S.durable,
                      get_key(l.parent_key, l.name, l.period_type, l.period))
    IN  [S |-> S,
         l |-> IF record # None THEN [l EXCEPT !.pc = "gseed", !.record = record]
               ELSE Return(l, None)]

\* a read path that seeds with set: it replaces a value a writer stored
GetSeedStep_Overwrites(S, l) ==
    LET count == Val(l.record).count
    IN  [S |-> [S EXCEPT !.cache = MapPut(S.cache, CacheKey(l), count)],
         l |-> [l EXCEPT !.pc = "done", !.count = Some(count)]]

\* lines 138-141
GetSeedStep(S, l) ==
    LET count == Val(l.record).count
    IN  [S |-> [S EXCEPT !.cache = memcache_add(S.cache, CacheKey(l), count)],
         l |-> [l EXCEPT !.pc = "done", !.count = Some(count)]]

----------------------------------------------------------------------------
(* LivecountCounterWorker.post                                             *)

\* self.request.get(name): the parameter, or '' when the task carries none
RequestGet(params, field) == IF field \in DOMAIN params THEN params[field] ELSE ""

\* lines 228-234: the locals the request's parameters give (and the task's
\* origin, which the handler does not read)
WorkerFrame(params) ==
    LET ns == RequestGet(params, "namespace")
        namespace == IF ns # "" THEN Some(ns) ELSE None
        period == Str(RequestGet(params, "period"))
        period_type == RequestGet(params, "period_type")
        name == RequestGet(params, "name")
        key_id == get_key_id(name, period_type, period)
        l == [IdleFrame EXCEPT !.op = "worker", !.pc = "wdelete", !.namespace = namespace,
                !.parent_key = ns_to_parent(namespace), !.period_type = period_type,
                !.period = period, !.name = name,
                !.origin = IF "origin" \in DOMAIN params THEN Some(params["origin"])
                           ELSE None]
    IN  IF key_id = RaisedKey THEN Raise(l, "ValueError") ELSE [l EXCEPT !.key_id = key_id]

\* a worker whose delete misses the marker
WorkerDeleteStep_KeepsMarker(S, l) == [S |-> S, l |-> [l EXCEPT !.pc = "wget"]]

\* line 236: memcache.delete(key_id + '_dirty', namespace)
WorkerDeleteStep(S, l) ==
    [S |-> [S EXCEPT !.cache = MapDel(S.cache, MarkerKey(CacheKey(l)))],
     l |-> [l EXCEPT !.pc = "wget"]]

\* a worker that takes a missing cache value for zero and writes it
WorkerGetStep_ZeroWhenMissing(S, l) ==
    LET cached_count == memcache_get(S.cache, CacheKey(l))
    IN  [S |-> [S EXCEPT !.unread = S.unread \ {CacheKey(l)}],
         l |-> [l EXCEPT !.pc = "wput",
                         !.count = IF cached_count = None THEN Some(0) ELSE cached_count]]

\* lines 237-241: memcache.get; without a value, logging.error and return
WorkerGetStep(S, l) ==
    LET cached_count == memcache_get(S.cache, CacheKey(l))
    IN  IF cached_count = None
        THEN [S |-> [S EXCEPT !.errors = S.errors \cup {l.key_id}], l |-> Return(l, None)]
        ELSE [S |-> [S EXCEPT !.unread = S.unread \ {CacheKey(l)}],
              l |-> [l EXCEPT !.pc = "wput", !.count = cached_count]]

\* an entity that carries the count of the record it replaces
WorkerEntity_StaleCount(l) ==
    [period_type |-> l.period_type, period |-> find_scope(l.period_type, l.period),
     name |-> l.name, count |-> 0]

\* lines 244-247: the entity that is put
WorkerEntity(l) ==
    [period_type |-> l.period_type, period |-> find_scope(l.period_type, l.period),
     name |-> l.name, count |-> Val(l.count)]

\* a put that adds the cached count to the count of the record it replaces
WorkerPutStep_Accumulates(S, l) ==
    LET old == IF FullKey(l) \in DOMAIN S.durable THEN S.durable[FullKey(l)].count ELSE 0
    IN  [S |-> [S EXCEPT !.durable =
                   MapPut(S.durable, FullKey(l),
                          [WorkerEntity(l) EXCEPT !.count = old + Val(l.count)])],
         l |-> [l EXCEPT !.pc = "done"]]

\* a put that clears the dirty marker once more after writing
WorkerPutStep_ClearsMarker(S, l) ==
    [S |-> [S EXCEPT !.durable = MapPut(S.durable, FullKey(l), WorkerEntity(l)),
                     !.cache = MapDel(S.cache, MarkerKey(CacheKey(l)))],
     l |-> [l EXCEPT !.pc = "done"]]

\* lines 244-247: LivecountCounter(parent=parent_key, id=key_id, ...).put()
WorkerPutStep(S, l) ==
    [S |-> [S EXCEPT !.durable = MapPut(S.durable, FullKey(l), WorkerEntity(l))],
     l |-> [l EXCEPT !.pc = "done"]]

----------------------------------------------------------------------------
(* A handler run without interleaving: its steps one after the other.      *)

Step(S, l) ==
    CASE l.pc = "incr" -> IncrAtomicStep(S, l)
      [] l.pc = "load" -> IncrLoadStep(S, l)
      [] l.pc = "seed" -> IncrSeedStep(S, l)
      [] l.pc = "claim" -> IncrClaimStep(S, l)
      [] l.pc = "enqueue" -> IncrEnqueueStep(S, l)
      [] l.pc = "get" -> GetCacheStep(S, l)
      [] l.pc = "gload" -> GetLoadStep(S, l)
      [] l.pc = "gseed" -> GetSeedStep(S, l)
      [] l.pc = "wdelete" -> WorkerDeleteStep(S, l)
      [] l.pc = "wget" -> WorkerGetStep(S, l)
      [] l.pc = "wput" -> WorkerPutStep(S, l)

RECURSIVE Run(_, _)
Run(S, l) == IF l.pc = "done" THEN [S |-> S, l |-> l] ELSE LET r == Step(S, l) IN Run(r.S, r.l)

----------------------------------------------------------------------------
(* The environment: clock, callers and the inputs they draw from.          *)

\* what datetime.now() returns as time passes: a Sunday's last second, the
\* same second later, and the first second of the Monday after it
Clock ==
    << Datetime(2011, 6, 12, 23, 59, 59, 0),
       Datetime(2011, 6, 12, 23, 59, 59, 500000),
       Datetime(2011, 6, 13, 0, 0, 0, 250000) >>

\* line 122: the default of load_and_get_count's `period` is evaluated once,
\* when the module is loaded (the initial state)
DefaultGetPeriod == Clock[1]

Callers == {"c1", "c2"}

MaxCalls == 3

MaxSeqCalls == 2

MaxSoloCalls == 4

\* the inputs of the concurrent specifications: one identity
ConcIn ==
    [names |-> {"visits"}, periods |-> {None}, period_types |-> {None},
     parents |-> {None}, deltas |-> {1}, decrements |-> {1}, batches |-> {None},
     get_types |-> {"all"}, limit |-> MaxCalls]

Commit(S) ==
    /\ cache' = S.cache
    /\ durable' = S.durable
    /\ queue' = S.queue
    /\ errors' = S.errors
    /\ unread' = S.unread

Init ==
    /\ cache = <<>>
    /\ durable = <<>>
    /\ queue = EmptyBag
    /\ workers = EmptyBag
    /\ frames = [c \in Callers |-> IdleFrame]
    /\ errors = {}
    /\ now = 1
    /\ ncalls = 0
    /\ unread = {}

\* a caller enters load_and_increment_counter
CallIncrement(c, In) ==
    /\ frames[c].pc = "done"
    /\ ncalls < In.limit
    /\ \E name \in In.names, period \in In.periods, pts \in In.period_types,
          parent \in In.parents, delta \in In.deltas, batch \in In.batches :
          frames' = [frames EXCEPT ![c] =
                        IncrementFrame(name, period, pts, parent, delta, batch, Clock[now])]
    /\ ncalls' = ncalls + 1
    /\ UNCHANGED <<cache, durable, queue, workers, errors, now, unread>>

\* a caller enters load_and_decrement_counter (lines 214-218)
CallDecrement(c, In) ==
    /\ frames[c].pc = "done"
    /\ ncalls < In.limit
    /\ \E name \in In.names, period \in In.periods, pts \in In.period_types,
          parent \in In.parents, delta \in In.decrements, batch \in In.batches :
          frames' = [frames EXCEPT ![c] =
                        IncrementFrame(name, period, pts, parent, -delta, batch, Clock[now])]
    /\ ncalls' = ncalls + 1
    /\ UNCHANGED <<cache, durable, queue, workers, errors, now, unread>>

\* a caller enters load_and_get_count
CallGetCount(c, In) ==
    /\ frames[c].pc = "done"
    /\ ncalls < In.limit
    /\ \E name \in In.names, period \in In.periods, pt \in In.get_types,
          parent \in In.parents :
          frames' = [frames EXCEPT ![c] =
                        GetCountFrame(name, pt, period, parent, DefaultGetPeriod)]
    /\ ncalls' = ncalls + 1
    /\ UNCHANGED <<cache, durable, queue, workers, errors, now, unread>>

\* the effect of one step of caller c
Advance(c, r) ==
    /\ Commit(r.S)
    /\ frames' = [frames EXCEPT ![c] = r.l]
    /\ UNCHANGED <<workers, now, ncalls>>

IncrAtomic(c) ==
    /\ frames[c].pc = "incr"
    /\ Advance(c, IncrAtomicStep(Store, frames[c]))

IncrLoad(c) ==
    /\ frames[c].pc = "load"
    /\ Advance(c, IncrLoadStep(Store, frames[c]))

IncrSeed(c) ==
    /\ frames[c].pc = "seed"
    /\ Advance(c, IncrSeedStep(Store, frames[c]))

IncrClaim(c) ==
    /\ frames[c].pc = "claim"
    /\ Advance(c, IncrClaimStep(Store, frames[c]))

IncrEnqueue(c) ==
    /\ frames[c].pc = "enqueue"
    /\ Advance(c, IncrEnqueueStep(Store, frames[c]))

GetCache(c) ==
    /\ frames[c].pc = "get"
    /\ Advance(c, GetCacheStep(Store, frames[c]))

GetLoad(c) ==
    /\ frames[c].pc = "gload"
    /\ Advance(c, GetLoadStep(Store, frames[c]))

GetSeed(c) ==
    /\ frames[c].pc = "gseed"
    /\ Advance(c, GetSeedStep(Store, frames[c]))

\* the task queue delivers a task: a worker request starts; a request whose
\* get_key_id raises (line 234) fails, and its task stays queued for a retry
WorkerStart ==
    /\ \E t \in BagToSet(queue) :
          IF WorkerFrame(t).raised # ""
          THEN UNCHANGED <<queue, workers>>
          ELSE /\ queue' = queue (-) SetToBag({t})
               /\ workers' = workers (+) SetToBag({WorkerFrame(t)})
    /\ UNCHANGED <<cache, durable, frames, errors, now, ncalls, unread>>

\* the effect of one step of the running worker f; a finished worker is gone
WorkerAdvance(f, r) ==
    /\ Commit(r.S)
    /\ workers' = IF r.l.pc = "done" THEN workers (-) SetToBag({f})
                  ELSE (workers (-) SetToBag({f})) (+) SetToBag({r.l})
    /\ UNCHANGED <<frames, now, ncalls>>

WorkerDelete ==
    \E f \in BagToSet(workers) :
        /\ f.pc = "wdelete"
        /\ WorkerAdvance(f, WorkerDeleteStep(Store, f))

WorkerGet ==
    \E f \in BagToSet(workers) :
        /\ f.pc = "wget"
        /\ WorkerAdvance(f, WorkerGetStep(Store, f))

WorkerPut ==
    \E f \in BagToSet(workers) :
        /\ f.pc = "wput"
        /\ WorkerAdvance(f, WorkerPutStep(Store, f))

\* memcache drops an entry whose key does not end in '_dirty'
EvictCache ==
    /\ \E k \in DOMAIN cache : ~IsMarker(k) /\ cache' = MapDel(cache, k)
    /\ UNCHANGED <<durable, queue, workers, frames, errors, now, ncalls, unread>>

\* memcache drops an entry whose key ends in '_dirty'
EvictDirty ==
    /\ \E k \in DOMAIN cache : IsMarker(k) /\ cache' = MapDel(cache, k)
    /\ UNCHANGED <<durable, queue, workers, frames, errors, now, ncalls, unread>>

\* time passes
Tick ==
    /\ now < Len(Clock)
    /\ now' = now + 1
    /\ UNCHANGED <<cache, durable, queue, workers, frames, errors, ncalls, unread>>

Next ==
    \/ \E c \in Callers : CallIncrement(c, ConcIn)
    \/ \E c \in Callers : CallDecrement(c, ConcIn)
    \/ \E c \in Callers : CallGetCount(c, ConcIn)
    \/ \E c \in Callers : IncrAtomic(c)
    \/ \E c \in Callers : IncrLoad(c)
    \/ \E c \in Callers : IncrSeed(c)
    \/ \E c \in Callers : IncrClaim(c)
    \/ \E c \in Callers : IncrEnqueue(c)
    \/ \E c \in Callers : GetCache(c)
    \/ \E c \in Callers : GetLoad(c)
    \/ \E c \in Callers : GetSeed(c)
    \/ WorkerStart
    \/ WorkerDelete
    \/ WorkerGet
    \/ WorkerPut
    \/ EvictCache
    \/ EvictDirty

\* concurrent callers and workers over a memcache that may evict
Spec == Init /\ [][Next]_vars

----------------------------------------------------------------------------
(* Concurrent increments and workers, no eviction, every started call and  *)
(* every enqueued task runs on: the flush discipline.                      *)

FlushIn ==
    [names |-> {"visits"}, periods |-> {None}, period_types |-> {None},
     parents |-> {None}, deltas |-> {1}, decrements |-> {1}, batches |-> {None},
     get_types |-> {"all"}, limit |-> MaxCalls]

NextFlush ==
    \/ \E c \in Callers : CallIncrement(c, FlushIn)
    \/ \E c \in Callers : CallDecrement(c, FlushIn)
    \/ \E c \in Callers : IncrAtomic(c)
    \/ \E c \in Callers : IncrLoad(c)
    \/ \E c \in Callers : IncrSeed(c)
    \/ \E c \in Callers : IncrClaim(c)
    \/ \E c \in Callers : IncrEnqueue(c)
    \/ WorkerStart
    \/ WorkerDelete
    \/ WorkerGet
    \/ WorkerPut

\* a call that has started runs to its end, and the task queue runs every task
FlushFairness ==
    /\ \A c \in Callers :
          /\ WF_vars(IncrAtomic(c))
          /\ WF_vars(IncrLoad(c))
          /\ WF_vars(IncrSeed(c))
          /\ WF_vars(IncrClaim(c))
          /\ WF_vars(IncrEnqueue(c))
    /\ WF_vars(WorkerStart)
    /\ WF_vars(WorkerDelete)
    /\ WF_vars(WorkerGet)
    /\ WF_vars(WorkerPut)

SpecFlush == Init /\ [][NextFlush]_vars /\ FlushFairness

----------------------------------------------------------------------------
(* A single caller: one call at a time, each of its service calls a step   *)
(* of its own, with the worker requests running in between.                *)

\* the spec's scenario: one counter by day, no eviction, no batching
SoloIn ==
    [names |-> {"visits"}, periods |-> {None}, period_types |-> {Some(<<"day">>)},
     parents |-> {None}, deltas |-> {1, 2}, decrements |-> {1, 2}, batches |-> {None},
     get_types |-> {"day"}, limit |-> MaxSoloCalls]

\* without eviction a get_count that misses the cache finds no record
\* either, so line 139 is never reached
NextSolo ==
    \/ CallIncrement("c1", SoloIn)
    \/ CallDecrement("c1", SoloIn)
    \/ CallGetCount("c1", SoloIn)
    \/ IncrAtomic("c1")
    \/ IncrLoad("c1")
    \/ IncrSeed("c1")
    \/ IncrClaim("c1")
    \/ IncrEnqueue("c1")
    \/ GetCache("c1")
    \/ GetLoad("c1")
    \/ WorkerStart
    \/ WorkerDelete
    \/ WorkerGet
    \/ WorkerPut

SpecSolo == Init /\ [][NextSolo]_vars

\* one caller over a memcache that may evict, while time passes
SeqIn ==
    [names |-> {"visits"}, periods |-> {None}, period_types |-> {Some(<<"day">>)},
     parents |-> {None}, deltas |-> {1}, decrements |-> {1}, batches |-> {None, Some(2)},
     get_types |-> {"day"}, limit |-> MaxSeqCalls]

NextSeq ==
    \/ CallIncrement("c1", SeqIn)
    \/ CallDecrement("c1", SeqIn)
    \/ CallGetCount("c1", SeqIn)
    \/ IncrAtomic("c1")
    \/ IncrLoad("c1")
    \/ IncrSeed("c1")
    \/ IncrClaim("c1")
    \/ IncrEnqueue("c1")
    \/ GetCache("c1")
    \/ GetLoad("c1")
    \/ GetSeed("c1")
    \/ WorkerStart
    \/ WorkerDelete
    \/ WorkerGet
    \/ WorkerPut
    \/ EvictCache
    \/ EvictDirty
    \/ Tick

SpecSeq == Init /\ [][NextSeq]_vars

\* the caller is between two calls and no worker request is running: the
\* next handler to start runs alone if nothing else is started before it ends
Alone == frames["c1"].pc = "done" /\ workers = EmptyBag

----------------------------------------------------------------------------
(* Counting the flush tasks of an identity.                                *)

RECURSIVE SumCopies(_, _)
\* the number of copies the bag B holds of the elements of S
SumCopies(B, S) ==
    IF S = {} THEN 0
    ELSE LET x == CHOOSE x \in S : TRUE IN CopiesIn(x, B) + SumCopies(B, S \ {x})

\* the tasks enqueued for identity k that wait in the queue
Waiting(k) == SumCopies(queue, {t \in BagToSet(queue) : t["origin"] = k})

\* the running workers of the tasks enqueued for identity k, at one of the
\* places pcs
Running(k, pcs) ==
    SumCopies(workers, {f \in BagToSet(workers) : f.origin = Some(k) /\ f.pc \in pcs})

\* the identities that have a task waiting or a worker running
Flushing ==
    {t["origin"] : t \in BagToSet(queue)} \cup {Val(f.origin) : f \in BagToSet(workers)}

\* the one identity of the concurrent specifications
VisitsAll == <<None, get_key_id("visits", "all", Clock[1])>>

----------------------------------------------------------------------------
(* The claims.                                                             *)

\* C1: in every reachable state the cached count of every identity is >= 0.
\* Stated as claimed; a decrement of an identity with no cache entry and no
\* datastore record seeds the cache with the negative delta (line 191).
C1_CacheNeverNegative == \A k \in DOMAIN counters : counters[k] >= 0

\* C2 as claimed: at most one flush task per identity is in flight, from its
\* enqueueing to the end of its worker.
C2_AtMostOneInFlight ==
    \A k \in Flushing : Waiting(k) + Running(k, {"wdelete", "wget", "wput"}) <= 1

\* C2, amended: at most one flush task per identity is in flight and has not
\* yet had the dirty marker cleared by its worker (it waits in the queue, or
\* its worker has started and not yet deleted the marker).
C2_AtMostOneUncleared ==
    \A k \in Flushing : Waiting(k) + Running(k, {"wdelete"}) <= 1

\* C2's case: a task waits while an earlier worker of the same identity, past
\* its delete of the marker, has not finished.
C2_Witness ==
    /\ Waiting(VisitsAll) = 1
    /\ Running(VisitsAll, {"wget", "wput"}) >= 1

\* C3: with batch_size unset, every cache update of an increment is
\* eventually followed by a worker's read of that identity's cache value; and
\* while an update is unread and no call is under way, a flush is pending (a
\* task waits, or a worker has yet to read the cache).
C3_EveryUpdateIsRead ==
    /\ [](/\ VisitsAll \in unread
          /\ \A c \in Callers : frames[c].pc = "done"
          => Waiting(VisitsAll) + Running(VisitsAll, {"wdelete", "wget"}) >= 1)
    /\ (VisitsAll \in unread) ~> (VisitsAll \notin unread)

\* C3's case: an increment landed after a worker cleared the marker and
\* before it read the cache, and a new flush task is in the queue.
C3_Witness ==
    /\ Running(VisitsAll, {"wget"}) >= 1
    /\ Waiting(VisitsAll) = 1
    /\ VisitsAll \in unread

\* the identity of the single-caller scenario
SoloKey == <<None, get_key_id("visits", "day", Clock[1])>>

\* C4: single caller, from a cold identity: every increment / decrement
\* that runs alone leaves the cache at max(0, v + delta), v the value before
\* it (0 when cold).  Stated as claimed; the first decrement leaves the
\* negative delta (see C1).
C4_RunningFlooredSum ==
    Alone =>
        \A name \in SoloIn.names, pts \in SoloIn.period_types,
           delta \in SoloIn.deltas \cup {-d : d \in SoloIn.decrements} :
            LET r == Run(Store, IncrementFrame(name, None, pts, None, delta, None, Clock[now]))
                k == CacheKey(r.l)
                v == IF k \in DOMAIN cache THEN cache[k] ELSE 0
            IN  k \in DOMAIN r.S.cache /\ r.S.cache[k] = Max(0, v + delta)

\* C5: single caller, batch_size unset, from cold: once the calls have
\* returned and the queued flush task runs, alone, the datastore record
\* exists and its count is the cache value, which is what a get_count after
\* it returns.
C5_FlushedCountIsCacheValue ==
    Alone =>
        \A t \in BagToSet(queue) :
            LET w == Run([Store EXCEPT !.queue = queue (-) SetToBag({t})], WorkerFrame(t))
                g == Run(w.S, GetCountFrame("visits", "day", None, None, DefaultGetPeriod))
            IN  /\ CacheKey(w.l) = SoloKey
                /\ CacheKey(g.l) = SoloKey
                /\ SoloKey \in DOMAIN cache
                /\ FullKey(w.l) \in DOMAIN w.S.durable
                /\ w.S.durable[FullKey(w.l)].count = cache[SoloKey]
                /\ g.l.count = Some(cache[SoloKey])

\* C5's case: three increments, the flush of the task the first of them
\* queued, and get_count returning 3.
C5_Witness ==
    /\ queue = EmptyBag
    /\ workers = EmptyBag
    /\ ncalls = 4
    /\ SoloKey \in DOMAIN durable
    /\ durable[SoloKey].count = 3
    /\ cache[SoloKey] = 3
    /\ frames["c1"].op = "get_count"
    /\ frames["c1"].pc = "done"
    /\ frames["c1"].count = Some(3)

\* C6: with batch_size = b and delta = 1, an increment that runs alone
\* claims the dirty marker (absent before the call, present after it) only
\* when the cache value the call leaves is a multiple of b.  Stated as
\* claimed; on the cold path with a datastore record the code tests
\* record.count (line 188), the value before the delta.
C6_FlushOnlyOnMultiple ==
    Alone =>
        \A name \in SeqIn.names, pts \in SeqIn.period_types, batch \in SeqIn.batches :
            LET r == Run(Store, IncrementFrame(name, None, pts, None, 1, batch, Clock[now]))
                k == CacheKey(r.l)
            IN  (Truthy(batch) /\ k \notin dirty /\ k \in Markers(r.S.cache))
                    => (k \in DOMAIN r.S.cache /\ r.S.cache[k] % Val(batch) = 0)

\* C7: with every task delivered once and no eviction of the marker, at most
\* one flush task per identity waits in the queue.
C7_AtMostOneWaiting == \A k \in Flushing : Waiting(k) <= 1

\* C7's case: two increments have completed, no worker has started, and one
\* task waits.
C7_Witness ==
    /\ Waiting(VisitsAll) = 1
    /\ ncalls = 2
    /\ \A c \in Callers : frames[c].op = "increment" /\ frames[c].pc = "done"
    /\ workers = EmptyBag
    /\ VisitsAll \in dirty
    /\ durable = <<>>

\* C8: a get_count that runs alone returns the cache value on a hit; on a
\* miss with a record it returns the record's count and seeds the cache with
\* it; on a miss with no record it returns None and creates no entry; no
\* step of a get_count, alone or not, changes the datastore, the dirty
\* markers or the task queue.
C8_GetCount ==
    /\ [](\A name \in SeqIn.names, pt \in SeqIn.get_types :
            LET r == Run(Store, GetCountFrame(name, pt, None, None, DefaultGetPeriod))
                k == CacheKey(r.l)
                dk == FullKey(r.l)
            IN  /\ (k \in DOMAIN cache
                       => r.l.count = Some(cache[k]) /\ r.S.cache = cache)
                /\ (k \notin DOMAIN cache /\ dk \in DOMAIN durable
                       => /\ r.l.count = Some(durable[dk].count)
                          /\ r.S.cache = MapPut(cache, k, durable[dk].count))
                /\ (k \notin DOMAIN cache /\ dk \notin DOMAIN durable
                       => r.l.count = None /\ r.S.cache = cache)
                /\ r.S.durable = durable /\ Markers(r.S.cache) = dirty /\ r.S.queue = queue)
    /\ [][(frames["c1"].op = "get_count" /\ frames'["c1"] # frames["c1"]
              /\ frames["c1"].pc # "done")
            => UNCHANGED <<durable, queue>> /\ Markers(cache') = dirty]_vars

\* C8's case: a get_count that missed the cache, found the record and seeded.
C8_Witness ==
    LET l == frames["c1"]
    IN  /\ l.op = "get_count"
        /\ l.pc = "done"
        /\ l.record # None
        /\ l.count = Some(Val(l.record).count)
        /\ CacheKey(l) \in DOMAIN cache
        /\ cache[CacheKey(l)] = Val(l.record).count

\* C9: get_count called without a period addresses the identity that an
\* increment called without a period at the same time addresses.  Stated as
\* claimed; get_count's default is the time the module was loaded (line 122).
C9_GetCountUsesCallTime ==
    \A name \in SeqIn.names, pt \in SeqIn.get_types :
        GetCountFrame(name, pt, None, None, DefaultGetPeriod).key_id
            = IncrementFrame(name, None, Some(<<pt>>), None, 1, None, Clock[now]).key_id

\* C10: a worker that finds no cache value logs the error and ends without
\* writing: no step of its run changes the datastore.
C10_MissingCacheValue ==
    [][\A f \in BagToSet(workers) :
          (CopiesIn(f, workers') < CopiesIn(f, workers)
              /\ (f.pc = "wdelete" \/ (f.pc = "wget" /\ CacheKey(f) \notin DOMAIN cache)))
          => /\ durable' = durable
             /\ f.pc = "wget"
                   => /\ f.key_id \in errors'
                      /\ BagCardinality(workers') = BagCardinality(workers) - 1]_vars

\* C10's case: a worker has ended in the error and no record exists.
C10_Witness ==
    /\ VisitsAll[2] \in errors
    /\ durable = <<>>
    /\ workers = EmptyBag
    /\ queue = EmptyBag

----------------------------------------------------------------------------
(* Races on one identity: each caller makes one call, from a state in      *)
(* which the datastore holds the record of an earlier flush.               *)

MaxCold == 2

\* the record a worker wrote for the identity VisitsAll when the cache held c
FlushedRecord(c) ==
    WorkerEntity([IdleFrame EXCEPT !.name = "visits", !.period_type = "all",
                                   !.period = Clock[1], !.count = Some(c)])

RaceIn ==
    [names |-> {"visits"}, periods |-> {None}, period_types |-> {None},
     parents |-> {None}, deltas |-> {0, 1, 2}, decrements |-> {}, batches |-> {None},
     get_types |-> {"all"}, limit |-> Cardinality(Callers)]

\* a caller's only call is an increment
OnceIncrement(c) ==
    /\ frames[c].op = "idle"
    /\ CallIncrement(c, RaceIn)

\* a caller's only call is a get_count
OnceGetCount(c) ==
    /\ frames[c].op = "idle"
    /\ CallGetCount(c, RaceIn)

\* after a flush of the count c and the eviction of the cache entry
InitCold ==
    /\ cache = <<>>
    /\ durable \in {MapPut(<<>>, VisitsAll, FlushedRecord(c)) : c \in 0..MaxCold}
    /\ queue = EmptyBag
    /\ workers = EmptyBag
    /\ frames = [c \in Callers |-> IdleFrame]
    /\ errors = {}
    /\ now = 1
    /\ ncalls = 0
    /\ unread = {}

NextCold ==
    \/ \E c \in Callers : OnceIncrement(c)
    \/ OnceGetCount("c2")
    \/ \E c \in Callers : IncrAtomic(c)
    \/ \E c \in Callers : IncrLoad(c)
    \/ \E c \in Callers : IncrSeed(c)
    \/ \E c \in Callers : IncrClaim(c)
    \/ \E c \in Callers : IncrEnqueue(c)
    \/ GetCache("c2")
    \/ GetLoad("c2")
    \/ GetSeed("c2")

\* calls racing on a cold identity with a record (no worker, no eviction)
SpecCold == InitCold /\ [][NextCold]_vars

\* after a flush of the count c, the cache entry still present
InitWarm ==
    /\ \E c \in 0..MaxCold :
          /\ cache = MapPut(<<>>, VisitsAll, c)
          /\ durable = MapPut(<<>>, VisitsAll, FlushedRecord(c))
    /\ queue = EmptyBag
    /\ workers = EmptyBag
    /\ frames = [c \in Callers |-> IdleFrame]
    /\ errors = {}
    /\ now = 1
    /\ ncalls = 0
    /\ unread = {}

NextWarm ==
    \/ \E c \in Callers : OnceIncrement(c)
    \/ \E c \in Callers : IncrAtomic(c)
    \/ \E c \in Callers : IncrClaim(c)
    \/ \E c \in Callers : IncrEnqueue(c)

\* increments racing on a warm identity (no worker, no eviction)
SpecWarm == InitWarm /\ [][NextWarm]_vars

\* both callers have returned, c1 from an increment and c2 from the call op
BothDone(op) ==
    /\ frames["c1"].op = "increment" /\ frames["c1"].pc = "done"
    /\ frames["c2"].op = op /\ frames["c2"].pc = "done"

\* C11 as claimed: after one get_count and one increment of delta d on a cold
\* identity with record count c, the cache holds c + d.
C11_NoUpdateLost ==
    BothDone("get_count")
        => /\ VisitsAll \in DOMAIN cache
           /\ cache[VisitsAll] = durable[VisitsAll].count + frames["c1"].delta

\* C11, amended: after both the cache holds c + d or c (the delta is lost when
\* get_count seeds between the increment's missed atomic op and its own seed),
\* and no step of get_count changes a cache entry that is present.
C11_GetCountNeverOverwrites ==
    /\ [](BothDone("get_count")
            => /\ VisitsAll \in DOMAIN cache
               /\ cache[VisitsAll] \in {durable[VisitsAll].count + frames["c1"].delta,
                                        durable[VisitsAll].count})
    /\ [][(frames["c2"].op = "get_count" /\ frames'["c2"] # frames["c2"]
            /\ VisitsAll \in DOMAIN cache)
           => cache' = cache]_vars

\* C11's case: the increment has stored c + d while get_count, which missed
\* the cache before, is about to seed the count it loaded.
C11_Witness ==
    /\ frames["c2"].op = "get_count"
    /\ frames["c2"].pc = "gseed"
    /\ frames["c1"].op = "increment"
    /\ frames["c1"].delta > 0
    /\ VisitsAll \in DOMAIN cache
    /\ cache[VisitsAll] = Val(frames["c2"].record).count + frames["c1"].delta

----------------------------------------------------------------------------
(* The flush task's round trip: every period type, periods given as        *)
(* datetimes (of this century and of the nineteenth) and as strings (well  *)
(* formed, unpadded, and without a time), with and without a parent key.   *)

\* a Sunday of 1850, as a datetime
Sunday1850 == Datetime(1850, 6, 9, 23, 59, 59, 0)

TaskIn ==
    [names |-> {"visits"},
     periods |-> {Some(Clock[2]), Some(Sunday1850), Some(Str(DatetimeStr(Clock[1]))),
                  Some(Str(DatetimeStr(Clock[3]))),
                  Some(Str(<<"2", "0", "1", "1", "-", "6", "-", "5", " ",
                             "1", ":", "2", ":", "3">>)),
                  Some(Str(<<"2", "0", "1", "1", "-", "0", "6", "-", "1", "2">>))},
     period_types |-> {Some(<<"second", "week">>), Some(<<"minute", "month">>),
                       Some(<<"hour", "year">>), Some(<<"day", "all">>)},
     parents |-> {None, Some("P1")}, deltas |-> {1}, decrements |-> {},
     batches |-> {None}, get_types |-> {}, limit |-> 1]

\* the caller's only call
TaskIncrement ==
    /\ frames["c1"].op = "idle"
    /\ CallIncrement("c1", TaskIn)

NextTask ==
    \/ TaskIncrement
    \/ IncrAtomic("c1")
    \/ IncrLoad("c1")
    \/ IncrSeed("c1")
    \/ IncrClaim("c1")
    \/ IncrEnqueue("c1")
    \/ WorkerStart
    \/ WorkerDelete
    \/ WorkerGet
    \/ WorkerPut

\* one increment over a list of period types, and the worker requests of
\* the tasks it queues, no eviction
SpecTask == Init /\ [][NextTask]_vars

\* the identity of the call's i-th period type, from the caller's side: the
\* period as the caller passed it, the parent key as the caller passed it
CallerIdentity(l, i) ==
    [ns |-> l.namespace, parent |-> l.parent_key,
     key_id |-> get_key_id(l.name, l.period_types[i], l.period),
     period_type |-> l.period_types[i]]

\* the period types the call has finished with (line 211 has returned)
Finished(l) ==
    IF l.op # "increment" THEN {}
    ELSE {i \in 1..Len(l.period_types) : i < l.i}

\* the identities the call has incremented so far
Incremented ==
    LET l == frames["c1"]
    IN  {CallerIdentity(l, i) :
            i \in Finished(l) \cup {j \in 1..Len(l.period_types) :
                                       l.op = "increment" /\ j = l.i /\ l.pc # "done"}}

\* the identity a worker request acts on
WorkerIdentity(w) ==
    [ns |-> w.namespace, parent |-> w.parent_key, key_id |-> w.key_id,
     period_type |-> w.period_type]

\* C12 as claimed: the task carries the identity back unchanged. Every waiting task and
\* every running worker acts on an identity the call incremented (same
\* key_id, namespace and parent key); every identity the call has finished
\* with has its cache entry and either its marker and a task waiting (or a
\* worker about to clear the marker), or no marker and a worker on its way
\* to the record, or the record, under the caller's parent key, written
\* with the cache's value; and no other record exists.
C12_TaskRoundTrip ==
    /\ \A t \in BagToSet(queue) : WorkerIdentity(WorkerFrame(t)) \in Incremented
    /\ \A w \in BagToSet(workers) : WorkerIdentity(w) \in Incremented
    /\ \A i \in Finished(frames["c1"]) :
          LET id == CallerIdentity(frames["c1"], i)
              k == <<id.ns, id.key_id>>
              dk == <<id.parent, id.key_id>>
          IN  /\ k \in DOMAIN cache
              /\ IF k \in dirty
                 THEN \/ \E t \in BagToSet(queue) : WorkerIdentity(WorkerFrame(t)) = id
                      \/ \E w \in BagToSet(workers) :
                            WorkerIdentity(w) = id /\ w.pc = "wdelete"
                 ELSE \/ \E w \in BagToSet(workers) :
                            WorkerIdentity(w) = id /\ w.pc \in {"wget", "wput"}
                      \/ /\ dk \in DOMAIN durable
                         /\ durable[dk].count = cache[k]
                         /\ durable[dk].period_type = id.period_type
    /\ \A dk \in DOMAIN durable :
          \E id \in Incremented : dk = <<id.parent, id.key_id>>

\* C12 fails for a datetime period before 1900 with period type week: the
\* caller takes the week from the datetime (lines 61-63), the worker parses
\* the string, where time.mktime raises ValueError (lines 75-77, reached
\* from line 234), so the task names no identity, is retried without end,
\* and the marker stays and the record is never written.

----------------------------------------------------------------------------
(* Counters that only grow: concurrent increments (no decrement) and       *)
(* workers, first without eviction and with fairness, then with eviction   *)
(* and get_count.                                                          *)

NextGrowFlush ==
    \/ \E c \in Callers : CallIncrement(c, FlushIn)
    \/ \E c \in Callers : IncrAtomic(c)
    \/ \E c \in Callers : IncrLoad(c)
    \/ \E c \in Callers : IncrSeed(c)
    \/ \E c \in Callers : IncrClaim(c)
    \/ \E c \in Callers : IncrEnqueue(c)
    \/ WorkerStart
    \/ WorkerDelete
    \/ WorkerGet
    \/ WorkerPut

SpecGrowFlush == Init /\ [][NextGrowFlush]_vars /\ FlushFairness

NextGrow ==
    \/ \E c \in Callers : CallIncrement(c, ConcIn)
    \/ \E c \in Callers : CallGetCount(c, ConcIn)
    \/ \E c \in Callers : IncrAtomic(c)
    \/ \E c \in Callers : IncrLoad(c)
    \/ \E c \in Callers : IncrSeed(c)
    \/ \E c \in Callers : IncrClaim(c)
    \/ \E c \in Callers : IncrEnqueue(c)
    \/ \E c \in Callers : GetCache(c)
    \/ \E c \in Callers : GetLoad(c)
    \/ \E c \in Callers : GetSeed(c)
    \/ WorkerStart
    \/ WorkerDelete
    \/ WorkerGet
    \/ WorkerPut
    \/ EvictCache
    \/ EvictDirty

SpecGrow == Init /\ [][NextGrow]_vars

\* no call is running, no task waits and no worker runs: nothing is left that
\* could change the state unless a caller calls again
Quiescent ==
    /\ \A c \in Callers : frames[c].pc = "done"
    /\ queue = EmptyBag
    /\ workers = EmptyBag

\* the durable count of every identity in the cache equals its cache value
Converged ==
    \A k \in DOMAIN counters :
        RecordKey(k) \in DOMAIN durable /\ durable[RecordKey(k)].count = counters[k]

\* C13 as claimed, in the form a finite run refutes: with increments only, no
\* eviction and no batch_size, whenever the callers have stopped and every
\* task has run, the durable count of every incremented identity equals its
\* cache value (a quiescent state stays as it is, so this is the state the
\* system would have to reach and stay in).
C13_QuiescentConverged == Quiescent => Converged

\* C14 as claimed: with nonnegative deltas only, whenever an identity has a
\* cache entry and a durable record, the cache value is at least the durable
\* count.
C14_CacheAtLeastDurable ==
    \A k \in DOMAIN counters :
        RecordKey(k) \in DOMAIN durable => counters[k] >= durable[RecordKey(k)].count

----------------------------------------------------------------------------
(* The two increment races. In SpecWarm and SpecCold no worker runs, so    *)
(* the record keeps the count c the run started from; in SpecWarm the      *)
(* cache starts at that same count.                                        *)

\* C15: on the warm path no delta is lost. After two concurrent increments
\* with nonnegative deltas on an identity whose cache entry is present
\* throughout, the cache holds its initial value plus both deltas.
C15_WarmSum ==
    BothDone("increment")
        => /\ VisitsAll \in DOMAIN cache
           /\ cache[VisitsAll] = durable[VisitsAll].count
                                    + frames["c1"].delta + frames["c2"].delta

\* C15's case: both increments, of different positive deltas, have returned.
C15_Witness ==
    /\ BothDone("increment")
    /\ frames["c1"].delta = 1
    /\ frames["c2"].delta = 2
    /\ durable[VisitsAll].count = 1
    /\ cache[VisitsAll] = 4

\* C16: the cold-load race loses at most one delta. After two concurrent
\* increments with positive deltas d1 and d2 on a cold identity whose record
\* count is c, the cache holds c + d1 + d2, c + d1 or c + d2.
C16_ColdRaceLosesAtMostOne ==
    (BothDone("increment") /\ frames["c1"].delta > 0 /\ frames["c2"].delta > 0)
        => LET c == durable[VisitsAll].count
               d1 == frames["c1"].delta
               d2 == frames["c2"].delta
           IN  /\ VisitsAll \in DOMAIN cache
               /\ cache[VisitsAll] \in {c + d1 + d2, c + d1, c + d2}

\* C16's case: both increments have returned and the second one's delta, the
\* larger, is the one the race lost.
C16_Witness ==
    /\ BothDone("increment")
    /\ frames["c1"].delta = 1
    /\ frames["c2"].delta = 2
    /\ cache[VisitsAll] = durable[VisitsAll].count + 1

----------------------------------------------------------------------------
(* The cold path of a single caller.                                       *)

\* C17: when the cache entry of the identity is absent and its record holds
\* the count c, an increment or decrement of delta d that runs alone leaves
\* the cache holding max(0, c + d); and a get_count of that identity that
\* follows the call, alone too, returns that value and leaves it in place.
C17_ColdSeedFromRecord ==
    Alone =>
        \A name \in SeqIn.names, pts \in SeqIn.period_types, batch \in SeqIn.batches,
           delta \in SeqIn.deltas \cup {-d : d \in SeqIn.decrements} :
            LET l0 == IncrementFrame(name, None, pts, None, delta, batch, Clock[now])
                r == Run(Store, l0)
                k == CacheKey(r.l)
                dk == FullKey(r.l)
                g == Run(r.S, GetCountFrame(name, Val(pts)[1], Some(l0.period), None,
                                            DefaultGetPeriod))
            IN  (k \notin DOMAIN cache /\ dk \in DOMAIN durable)
                    => /\ k \in DOMAIN r.S.cache
                       /\ r.S.cache[k] = Max(0, durable[dk].count + delta)
                       /\ CacheKey(g.l) = k
                       /\ g.l.count = Some(r.S.cache[k])
                       /\ g.S.cache = r.S.cache

\* C17's case: an increment of 1 with no other request running has loaded
\* the record of count 1 and seeded 2 from it, and is about to test the
\* batch size (line 200).
C17_Witness ==
    LET l == frames["c1"]
        k == CacheKey(l)
    IN  /\ l.op = "increment"
        /\ l.pc = "claim"
        /\ l.delta = 1
        /\ l.record # None
        /\ Val(l.record).count = 1
        /\ FullKey(l) \in DOMAIN durable
        /\ durable[FullKey(l)].count = 1
        /\ k \in DOMAIN cache
        /\ cache[k] = 2
        /\ workers = EmptyBag

----------------------------------------------------------------------------
(* Several identities: two names, a list of period types, periods given   *)
(* as the time of the call and as strings, while time passes and the       *)
(* workers run in between.                                                 *)

\* the period strings '' and '_dirty': find_scope slices them as any other
\* string, and the day (month) scope of the second is the scope of the first
\* followed by '_dirty'
Blank == Str(<<>>)

Suffix == Str(<<"_", "d", "i", "r", "t", "y">>)

\* as many calls as there are names
MultiIn ==
    [names |-> {"visits", "clicks"}, periods |-> {None, Some(Blank), Some(Suffix)},
     period_types |-> {Some(<<"day", "month">>)},
     parents |-> {None}, deltas |-> {2}, decrements |-> {},
     batches |-> {None}, get_types |-> {},
     limit |-> Cardinality({"visits", "clicks"})]

NextMulti ==
    \/ CallIncrement("c1", MultiIn)
    \/ IncrAtomic("c1")
    \/ IncrLoad("c1")
    \/ IncrSeed("c1")
    \/ IncrClaim("c1")
    \/ IncrEnqueue("c1")
    \/ WorkerStart
    \/ WorkerDelete
    \/ WorkerGet
    \/ WorkerPut
    \/ Tick

SpecMulti == Init /\ [][NextMulti]_vars

\* the cache keys of the identities an increment call lists
Listed(l) ==
    {<<l.namespace, get_key_id(l.name, l.period_types[i], l.period)>> :
        i \in 1..Len(l.period_types)}

\* the count an increment finds for the cache key k of the call l in the
\* store S: the cache value, else the record's count, else nothing
Found(S, l, k) ==
    IF k \in DOMAIN S.cache THEN S.cache[k]
    ELSE IF <<l.parent_key, k[2]>> \in DOMAIN S.durable
         THEN S.durable[<<l.parent_key, k[2]>>].count
         ELSE 0

\* C18 as claimed: the frame of an increment call and of a worker run. An
\* increment with a list of distinct period types that runs alone adds its
\* (positive) delta once to the cache entry of each listed identity; the
\* cache entry, marker, record and queued tasks of every other identity stay
\* as they were. A worker run changes nothing but the marker and the record
\* of its task's identity. And step by step, whatever runs in between: a
\* step of an increment changes no cache entry and no marker but those of
\* the identity it is at, and no record; a step of a worker changes no cache
\* entry, no marker and no record but those of its identity.
C18_OnlyOwnIdentity ==
    /\ [](Alone =>
            \A name \in MultiIn.names, period \in MultiIn.periods,
               pts \in MultiIn.period_types,
               parent \in MultiIn.parents, delta \in MultiIn.deltas :
                LET l == IncrementFrame(name, period, pts, parent, delta, None, Clock[now])
                    r == Run(Store, l)
                IN  /\ Cardinality(Listed(l)) = Len(l.period_types)
                    /\ \A k \in Listed(l) :
                          /\ k \in DOMAIN r.S.cache
                          /\ r.S.cache[k] = Found(Store, l, k) + delta
                    /\ DOMAIN Counters(r.S.cache) \ Listed(l) = DOMAIN counters \ Listed(l)
                    /\ \A k \in DOMAIN counters \ Listed(l) : r.S.cache[k] = cache[k]
                    /\ Markers(r.S.cache) \ Listed(l) = dirty \ Listed(l)
                    /\ r.S.durable = durable
                    /\ \A t \in BagToSet(queue) \cup BagToSet(r.S.queue) :
                          t["origin"] \notin Listed(l)
                             => CopiesIn(t, r.S.queue) = CopiesIn(t, queue))
    /\ [](\A t \in BagToSet(queue) :
            LET w == WorkerFrame(t)
                r == Run([Store EXCEPT !.queue = queue (-) SetToBag({t})], w)
            IN  /\ r.S.queue = queue (-) SetToBag({t})
                /\ Counters(r.S.cache) = counters
                /\ Markers(r.S.cache) \ {CacheKey(w)} = dirty \ {CacheKey(w)}
                /\ DOMAIN r.S.durable \ {FullKey(w)} = DOMAIN durable \ {FullKey(w)}
                /\ \A dk \in DOMAIN durable \ {FullKey(w)} : r.S.durable[dk] = durable[dk])
    /\ [][(frames'["c1"] # frames["c1"] /\ frames["c1"].pc # "done")
           => LET k == CacheKey(frames["c1"])
              IN  /\ DOMAIN Counters(cache') \ {k} = DOMAIN counters \ {k}
                  /\ \A x \in DOMAIN counters \ {k} : cache'[x] = cache[x]
                  /\ Markers(cache') \ {k} = dirty \ {k}
                  /\ durable' = durable
                  /\ \A t \in BagToSet(queue) \cup BagToSet(queue') :
                        t["origin"] # k
                           => CopiesIn(t, queue') = CopiesIn(t, queue)]_vars
    /\ [][\A f \in BagToSet(workers) :
             CopiesIn(f, workers') < CopiesIn(f, workers)
             => /\ Counters(cache') = counters
                /\ Markers(cache') \ {CacheKey(f)} = dirty \ {CacheKey(f)}
                /\ DOMAIN durable' \ {FullKey(f)} = DOMAIN durable \ {FullKey(f)}
                /\ \A dk \in DOMAIN durable \ {FullKey(f)} : durable'[dk] = durable[dk]
                /\ queue' = queue]_vars

\* C18 fails where the key_id of one identity is the key_id of another
\* followed by '_dirty': the marker of the second (lines 201, 236) is the
\* cache entry of the first.  The claim of the marker of visits|day| creates
\* the entry visits|day|_dirty, which get_count then returns as the count of
\* an identity nobody incremented, and the worker's delete removes the count
\* of that identity.

----------------------------------------------------------------------------
(* The record as a snapshot of the cache.                                  *)

\* C19: the record of an identity is created or changed only by a worker's
\* put, never by a step of increment, decrement or get_count, and the count
\* it then holds is one the identity's cache entry held earlier. As two
\* properties of every step: a step that changes the datastore is the put of
\* a running worker and writes, for that worker's identity only, the count
\* the worker carries; and a worker comes to carry a count only by reading
\* it from its identity's cache entry.
C19_RecordIsSnapshot ==
    /\ [][durable' # durable
           => /\ frames' = frames
              /\ \E f \in BagToSet(workers) :
                    /\ f.pc = "wput"
                    /\ CopiesIn(f, workers') < CopiesIn(f, workers)
                    /\ DOMAIN durable' = DOMAIN durable \cup {FullKey(f)}
                    /\ durable'[FullKey(f)].count = Val(f.count)
                    /\ \A dk \in DOMAIN durable \ {FullKey(f)} :
                          durable'[dk] = durable[dk]]_vars
    /\ [][\A g \in BagToSet(workers') :
             (g.pc = "wput" /\ CopiesIn(g, workers') > CopiesIn(g, workers))
             => /\ CacheKey(g) \in DOMAIN cache
                /\ g.count = Some(cache[CacheKey(g)])
                /\ FullKey(g)[2] = CacheKey(g)[2]]_vars

\* C19's case: a worker has written the count 1 it read earlier, and the
\* cache has moved on to 2 since.
C19_Witness ==
    /\ VisitsAll \in DOMAIN durable
    /\ durable[VisitsAll].count = 1
    /\ VisitsAll \in DOMAIN cache
    /\ cache[VisitsAll] = 2
    /\ workers = EmptyBag

----------------------------------------------------------------------------
(* At-least-once delivery: the task queue may deliver a task and keep it,  *)
(* to deliver it again.                                                    *)

MaxRedeliverCalls == 2

\* the worker requests the redelivering queue keeps running at once
MaxRunning == 2

\* the task queue delivers a task, whose worker request starts, and does not
\* take the task off the queue (it will be delivered again)
WorkerRedeliver ==
    /\ BagCardinality(workers) < MaxRunning
    /\ \E t \in BagToSet(queue) :
          /\ WorkerFrame(t).raised = ""
          /\ workers' = workers (+) SetToBag({WorkerFrame(t)})
    /\ UNCHANGED <<cache, durable, queue, frames, errors, now, ncalls, unread>>

RedeliverIn ==
    [names |-> {"visits"}, periods |-> {None}, period_types |-> {Some(<<"day">>)},
     parents |-> {None}, deltas |-> {1}, decrements |-> {1}, batches |-> {None},
     get_types |-> {"day"}, limit |-> MaxRedeliverCalls]

NextRedeliver ==
    \/ CallIncrement("c1", RedeliverIn)
    \/ CallDecrement("c1", RedeliverIn)
    \/ CallGetCount("c1", RedeliverIn)
    \/ IncrAtomic("c1")
    \/ IncrLoad("c1")
    \/ IncrSeed("c1")
    \/ IncrClaim("c1")
    \/ IncrEnqueue("c1")
    \/ GetCache("c1")
    \/ GetLoad("c1")
    \/ GetSeed("c1")
    \/ WorkerStart
    \/ WorkerRedeliver
    \/ WorkerDelete
    \/ WorkerGet
    \/ WorkerPut
    \/ EvictCache
    \/ EvictDirty

\* one caller, eviction, and a task queue that delivers at least once
SpecRedeliver == Init /\ [][NextRedeliver]_vars

\* C20: redelivery with nothing in between is harmless. In every reachable
\* state and for every waiting task, running the worker for the task and then
\* running it again at once leaves the records, the cache and the markers as
\* the first run left them.
C20_RedeliveryIdempotent ==
    \A t \in BagToSet(queue) :
       LET first == Run(Store, WorkerFrame(t)).S
           second == Run(first, WorkerFrame(t)).S
       IN  /\ second.durable = first.durable
           /\ second.cache = first.cache
           /\ Markers(second.cache) = Markers(first.cache)

\* C20's case: a task has been delivered, its worker request has ended, and
\* it is still queued for redelivery: its marker is cleared and its record
\* exists with a positive count, equal to the cache value.
C20_Witness ==
    /\ workers = EmptyBag
    /\ \E t \in BagToSet(queue) :
          LET w == WorkerFrame(t)
          IN  /\ CacheKey(w) \notin dirty
              /\ FullKey(w) \in DOMAIN durable
              /\ CacheKey(w) \in DOMAIN cache
              /\ durable[FullKey(w)].count = cache[CacheKey(w)]
              /\ cache[CacheKey(w)] > 0
              /\ Waiting(CacheKey(w)) = 1

====
